---- MODULE Spec2Model ----
(***************************************************************************)
(* Usage quota and billing-cycle reconciliation of paylens-backend:        *)
(* UserService (incrementUsageCount, checkAndResetMonthlyUsage,            *)
(* resetMonthlyUsage), UsageController (incrementUsage with the            *)
(* recentRequests guard, getUsage) and the callers of the sweep.           *)
(*                                                                         *)
(* Every await on dbService.query is one step: a SQL statement is atomic   *)
(* in the store, the JavaScript around it runs to the next await without   *)
(* interruption, and other requests interleave between the steps.          *)
(***************************************************************************)
EXTENDS Integers, Sequences, FiniteSets, TLC

(* ------------------------------ bounds -------------------------------- *)
NumCallers == 2      \* concurrent requests
MaxLimit == 2        \* monthly_limit of the metered account
MonthLen == 2        \* instants per calendar month
MaxNow == 3          \* last instant of the calendar clock
MaxClock == 11000    \* last Date.now() value, in ms
MaxInFlight == 2     \* scheduled sweeps suspended at their await when the scheduler starts

(* ------------------------- program constants -------------------------- *)
REQUEST_DEDUPE_WINDOW == 5000

(* ------------------------------- state -------------------------------- *)
VARIABLES
    users,           \* the users table: id -> row
    now,             \* calendar clock read by NOW() and new Date()
    pc,              \* per request: the await it is suspended at
    req,             \* per request: operation and user id
    resetCheck,      \* per request: the result of checkAndResetMonthlyUsage; its user is
                     \* kept while the reset is pending, afterwards only tested for null;
                     \* history: the month of its reset UPDATE, -1 if it ran none
    result,          \* per request: what the operation returned
    sweepResult,     \* resetCount of the latest resetMonthlyUsage() sweep, -1 if none
    sweepRuns,       \* history: sweeps run in the current month: none, one, more
    period,          \* history: per account, increments accepted in its period
                     \*          and reset UPDATEs applied in the current month
    clock,           \* Date.now() in ms, read by the guard
    recentRequests,  \* the guard's Map<userId, timestamp>
    lastAdmit,       \* history: time of the last admitted attempt per user id
    usage0,          \* history: usage_count of each account in the initial state
    scheduler,       \* SchedulerService: isRunning, monthlyResetInterval and the
                     \* performMonthlyReset calls suspended at their await
    adminResult      \* the latest response of an AdminController reset endpoint

vars == <<users, now, pc, req, resetCheck, result, sweepResult, sweepRuns, period,
          clock, recentRequests, lastAdmit, usage0, scheduler, adminResult>>

Callers == 1..NumCallers
UserIds == {"u1", "u2"}
NoUser == "u0"
Ids == UserIds \cup {NoUser}
EnterpriseLimits == {-1, 0}
GuardIds == {"u1", NoUser}
NewIds == {"u3"}
ClockSteps == {1000, 4000, 5000}

Null == [null |-> TRUE]
NoResult == [kind |-> "none"]
NoCheck == [wasReset |-> FALSE, user |-> Null, at |-> -1]

\* new SchedulerService(): monthlyResetInterval = null, isRunning = false;
\* timers counts the setInterval timers of the runtime that are not cleared,
\* errors is resetResult.errors.length of the last performMonthlyReset
NoInterval == -1
NotStarted == [isRunning |-> FALSE, monthlyResetInterval |-> NoInterval, sweeps |-> 0,
               timers |-> 0, errors |-> 0]

(* --------------------------- pure functions --------------------------- *)
Month(t) == t \div MonthLen

\* DATE_TRUNC('month', t); setDate(1) + setHours(0, 0, 0, 0)
DateTrunc(t) == (t \div MonthLen) * MonthLen

\* fault: the month comparison made inclusive
LazyDueInclusive(billingPeriodStart, t) == DateTrunc(t) >= DateTrunc(billingPeriodStart)

\* checkAndResetMonthlyUsage: currentMonth > lastResetMonth
LazyDue(billingPeriodStart, t) == DateTrunc(t) > DateTrunc(billingPeriodStart)

\* fault: the sweep compares with NOW() instead of the start of its month
SweepDueUntruncated(billingPeriodStart, t) == billingPeriodStart < t

\* fault: the sweep's comparison made inclusive
SweepDueInclusive(billingPeriodStart, t) == billingPeriodStart <= DateTrunc(t)

\* resetMonthlyUsage(): WHERE billing_period_start < DATE_TRUNC('month', NOW())
SweepDue(billingPeriodStart, t) == billingPeriodStart < DateTrunc(t)

\* fault: the limit test leaves one slot unused
CanIncrementShort(u) ==
    \/ u.subscriptionTier = "enterprise"
    \/ u.usageCount + 1 < u.monthlyLimit

\* fault: the limit test made inclusive
CanIncrementInclusive(u) ==
    \/ u.subscriptionTier = "enterprise"
    \/ u.usageCount <= u.monthlyLimit

\* fault: the enterprise disjunct dropped
CanIncrementNoBypass(u) == u.usageCount < u.monthlyLimit

\* fault: the UPDATE without its limit predicate
CanIncrementUnchecked(u) == TRUE

\* incrementUsageCount: the WHERE predicate of the conditional UPDATE
CanIncrement(u) ==
    \/ u.subscriptionTier = "enterprise"
    \/ u.usageCount < u.monthlyLimit

\* fault: billing_period_start = NOW() without DATE_TRUNC
ResetRowNoTrunc(u, t) ==
    [u EXCEPT !.usageCount = 0,
              !.lastUsageReset = t,
              !.billingPeriodStart = t]

\* the SET clause of both reset statements
ResetRow(u, t) ==
    [u EXCEPT !.usageCount = 0,
              !.lastUsageReset = t,
              !.billingPeriodStart = DateTrunc(t)]

\* SELECT * FROM users WHERE id = $1; rows[0] || null
findById(id) == IF id \in DOMAIN users THEN users[id] ELSE Null

\* a row as its readers use it: the fields of User that the controller, the
\* error message read
Row(u) ==
    [usageCount |-> u.usageCount, monthlyLimit |-> u.monthlyLimit,
     subscriptionTier |-> u.subscriptionTier]

\* getMonthlyLimit
getMonthlyLimit(tier) ==
    CASE tier = "free" -> 5
      [] tier = "pro" -> 100
      [] tier = "business" -> 1000
      [] tier = "enterprise" -> -1
      [] OTHER -> 5

\* Math.round((usageCount / monthlyLimit) * 100), or 0
usagePercentage(u) ==
    IF u.monthlyLimit > 0
    THEN (200 * u.usageCount + u.monthlyLimit) \div (2 * u.monthlyLimit)
    ELSE 0

\* UsageController.incrementUsage: the status of a failed increment
statusCode(error) ==
    IF error = "User not found" THEN 404
    ELSE IF error = "Usage limit exceeded" THEN 429
    ELSE 400

\* fault: the cleanup loop is left out
cleanupSkipped(map, t) == map

\* fault: the cleanup deletes the entries older than half the window
cleanupWithinWindow(map, t) ==
    [k \in {j \in DOMAIN map : ~(t - map[j] > REQUEST_DEDUPE_WINDOW \div 2)} |-> map[k]]

\* the cleanup loop of the guard
cleanup(map, t) ==
    [k \in {j \in DOMAIN map : ~(t - map[j] > REQUEST_DEDUPE_WINDOW * 2)} |-> map[k]]

\* fault: half the window
tooFrequentHalfWindow(map, id, t) ==
    /\ id \in DOMAIN map
    /\ t - map[id] < REQUEST_DEDUPE_WINDOW \div 2

\* fault: the window test made inclusive
tooFrequentInclusive(map, id, t) ==
    /\ id \in DOMAIN map
    /\ t - map[id] <= REQUEST_DEDUPE_WINDOW

\* fault: the operands of the subtraction swapped
tooFrequentSwapped(map, id, t) ==
    /\ id \in DOMAIN map
    /\ map[id] - t < REQUEST_DEDUPE_WINDOW

\* the guard's test on an existing entry
tooFrequent(map, id, t) ==
    /\ id \in DOMAIN map
    /\ t - map[id] < REQUEST_DEDUPE_WINDOW

(* ------------------------------ history ------------------------------- *)
\* a reset UPDATE executed on the rows in ids; resets counts none, one, more
PeriodAfterReset(ids) ==
    [id \in UserIds |->
        IF id \in ids
        THEN [accepted |-> IF users[id].billingPeriodStart < DateTrunc(now)
                           THEN 0 ELSE period[id].accepted,
              resets |-> IF period[id].resets < 2 THEN period[id].resets + 1 ELSE 2]
        ELSE period[id]]

(* ---------------------------- initial state --------------------------- *)
InitUsers(n, l) ==
    [id \in UserIds |->
        IF id = "u1"
        THEN [subscriptionTier |-> "free", monthlyLimit |-> MaxLimit,
              usageCount |-> n, billingPeriodStart |-> 0, lastUsageReset |-> 0]
        ELSE [subscriptionTier |-> "enterprise", monthlyLimit |-> l,
              usageCount |-> 0, billingPeriodStart |-> 0, lastUsageReset |-> 0]]

\* no request, no sweep, an empty guard map, a scheduler not started
InitRest ==
    /\ pc = [c \in Callers |-> "idle"]
    /\ req = [c \in Callers |-> [op |-> "none", userId |-> NoUser]]
    /\ resetCheck = [c \in Callers |-> NoCheck]
    /\ result = [c \in Callers |-> NoResult]
    /\ sweepResult = -1
    /\ sweepRuns = "none"
    /\ period = [id \in UserIds |-> [accepted |-> users[id].usageCount, resets |-> 0]]
    /\ clock = 0
    /\ recentRequests = [id \in {} |-> 0]
    /\ lastAdmit = [id \in Ids |-> -1]
    /\ usage0 = [id \in UserIds |-> users[id].usageCount]
    /\ scheduler = NotStarted
    /\ adminResult = NoResult

InitCommon ==
    /\ \E n \in 0..MaxLimit, l \in EnterpriseLimits : users = InitUsers(n, l)
    /\ InitRest

Init ==
    /\ now = 0
    /\ InitCommon

\* the guard is exercised in a month the accounts are current in, and in the
\* month after it
InitGuard ==
    /\ now \in {0, MonthLen}
    /\ InitCommon
    /\ users = InitUsers(MaxLimit - 1, -1)

(* ------------------------- UserService steps -------------------------- *)
\* what the caller of incrementUsageCount receives; the controller turns it
\* into its response in the same turn
Respond(c, r) ==
    IF req[c].op = "incrementUsage"
    THEN [r EXCEPT !.status = IF r.canIncrement THEN 200
                              ELSE IF r.error = "thrown" THEN 500
                              ELSE statusCode(r.error)]
    ELSE r

Finish(c, r) ==
    /\ result' = [result EXCEPT ![c] = Respond(c, r)]
    /\ pc' = [pc EXCEPT ![c] = "done"]
    /\ resetCheck' = [resetCheck EXCEPT ![c].user = Null]

NotFound ==
    [kind |-> "increment", user |-> Null, canIncrement |-> FALSE,
     error |-> "User not found", wasReset |-> FALSE, status |-> 0]

\* a request enters userService.incrementUsageCount
CallIncrementUsageCount(c, id) ==
    /\ pc[c] = "idle"
    /\ pc' = [pc EXCEPT ![c] = "check_find"]
    /\ req' = [req EXCEPT ![c] = [op |-> "incrementUsageCount", userId |-> id]]
    /\ UNCHANGED <<users, now, resetCheck, result, sweepResult, sweepRuns, period,
                   clock, recentRequests, lastAdmit, usage0, scheduler, adminResult>>

\* checkAndResetMonthlyUsage: findById and the due test on its result
CheckFind(c) ==
    /\ pc[c] = "check_find"
    /\ LET user == findById(req[c].userId) IN
         IF user = Null
         THEN Finish(c, NotFound)
         ELSE IF LazyDue(user.billingPeriodStart, now)
         THEN /\ resetCheck' = [resetCheck EXCEPT ![c] = [NoCheck EXCEPT !.user = Row(user)]]
              /\ pc' = [pc EXCEPT ![c] = "check_reset"]
              /\ UNCHANGED result
         ELSE /\ resetCheck' = [resetCheck EXCEPT ![c] = NoCheck]
              /\ pc' = [pc EXCEPT ![c] = "update"]
              /\ UNCHANGED result
    /\ UNCHANGED <<users, now, req, sweepResult, sweepRuns, period, clock, recentRequests, lastAdmit, usage0, scheduler, adminResult>>

\* checkAndResetMonthlyUsage: resetMonthlyUsage(userId), UPDATE ... WHERE id = $1
CheckReset(c) ==
    /\ pc[c] = "check_reset"
    /\ LET id == req[c].userId
           rows == IF id \in DOMAIN users THEN {id} ELSE {} IN
         /\ users' = [u \in DOMAIN users |->
                         IF u \in rows THEN ResetRow(users[u], now) ELSE users[u]]
         /\ period' = PeriodAfterReset(rows)
         /\ IF Cardinality(rows) > 0
            THEN /\ pc' = [pc EXCEPT ![c] = "check_refetch"]
                 /\ resetCheck' = [resetCheck EXCEPT ![c].at = Month(now)]
            ELSE /\ pc' = [pc EXCEPT ![c] = "update"]
                 /\ resetCheck' = [resetCheck EXCEPT ![c].user = Null]
    /\ UNCHANGED <<now, req, result, sweepResult, sweepRuns, clock, recentRequests, lastAdmit, usage0, scheduler, adminResult>>

\* checkAndResetMonthlyUsage: findById after the reset, wasReset: true
CheckRefetch(c) ==
    /\ pc[c] = "check_refetch"
    /\ LET updatedUser == findById(req[c].userId) IN
         IF updatedUser = Null
         THEN Finish(c, NotFound)
         ELSE /\ resetCheck' = [resetCheck EXCEPT ![c].wasReset = TRUE,
                                                  ![c].user = Null]
              /\ pc' = [pc EXCEPT ![c] = "update"]
              /\ UNCHANGED result
    /\ UNCHANGED <<users, now, req, sweepResult, sweepRuns, period, clock, recentRequests, lastAdmit, usage0, scheduler, adminResult>>

\* incrementUsageCount: the conditional UPDATE ... RETURNING *
Update(c) ==
    /\ pc[c] = "update"
    /\ LET id == req[c].userId IN
         IF id \in DOMAIN users /\ CanIncrement(users[id])
         THEN /\ users' = [users EXCEPT ![id].usageCount = @ + 1]
              /\ period' = IF id \in DOMAIN period
                           THEN [period EXCEPT ![id].accepted = @ + 1]
                           ELSE period
              /\ Finish(c, [kind |-> "increment", user |-> Row(users'[id]),
                            canIncrement |-> TRUE, error |-> "",
                            wasReset |-> resetCheck[c].wasReset, status |-> 0])
         ELSE /\ pc' = [pc EXCEPT ![c] = "recheck"]
              /\ UNCHANGED <<users, period, result, resetCheck>>
    /\ UNCHANGED <<now, req, sweepResult, sweepRuns, clock, recentRequests, lastAdmit, usage0, scheduler, adminResult>>

\* incrementUsageCount: findById after an UPDATE that matched no row
Recheck(c) ==
    /\ pc[c] = "recheck"
    /\ LET userCheck == findById(req[c].userId) IN
         IF userCheck = Null
         THEN Finish(c, NotFound)
         ELSE IF userCheck.subscriptionTier = "enterprise"
         THEN Finish(c, [NotFound EXCEPT !.error = "Enterprise user increment failed"])
         ELSE Finish(c, [kind |-> "increment", user |-> Row(userCheck),
                         canIncrement |-> FALSE, error |-> "Usage limit exceeded",
                         wasReset |-> resetCheck[c].wasReset, status |-> 0])
    /\ UNCHANGED <<users, now, req, sweepResult, sweepRuns, period, clock, recentRequests, lastAdmit, usage0, scheduler, adminResult>>

\* UsageController.getUsage: one findById and the response built from it
getUsage(c, id) ==
    /\ pc[c] = "idle"
    /\ pc' = [pc EXCEPT ![c] = "done"]
    /\ req' = [req EXCEPT ![c] = [op |-> "getUsage", userId |-> id]]
    /\ LET user == findById(id) IN
         result' = [result EXCEPT ![c] =
            IF user = Null
            THEN [kind |-> "usage", status |-> 404]
            ELSE [kind |-> "usage", status |-> 200,
                  usageCount |-> user.usageCount,
                  monthlyLimit |-> user.monthlyLimit,
                  subscriptionTier |-> user.subscriptionTier,
                  usagePercentage |-> usagePercentage(user),
                  due |-> LazyDue(user.billingPeriodStart, now)]]
    /\ UNCHANGED <<users, now, resetCheck, sweepResult, sweepRuns, period,
                   clock, recentRequests, lastAdmit, usage0, scheduler, adminResult>>

\* resetMonthlyUsage() without a user id: the UPDATE of every row whose
\* billing_period_start lies before the current month, and resetCount
SweepUpdate ==
    LET rows == {id \in DOMAIN users : SweepDue(users[id].billingPeriodStart, now)} IN
      /\ users' = [u \in DOMAIN users |->
                      IF u \in rows THEN ResetRow(users[u], now) ELSE users[u]]
      /\ period' = PeriodAfterReset(rows)
      /\ sweepResult' = Cardinality(rows)
      /\ sweepRuns' = IF sweepRuns = "none" THEN "one" ELSE "more"

\* resetMonthlyUsage() called directly: SchedulerService.triggerMonthlyReset
resetMonthlyUsage ==
    /\ SweepUpdate
    /\ UNCHANGED <<now, pc, req, resetCheck, result, clock, recentRequests, lastAdmit, usage0, scheduler, adminResult>>

\* calendar time passes
Tick ==
    /\ now < MaxNow
    /\ scheduler.monthlyResetInterval # now
    /\ now' = now + 1
    /\ period' = IF Month(now') # Month(now)
                 THEN [id \in UserIds |-> [period[id] EXCEPT !.resets = 0]]
                 ELSE period
    /\ sweepRuns' = IF Month(now') # Month(now) THEN "none" ELSE sweepRuns
    /\ UNCHANGED <<users, pc, req, resetCheck, result, sweepResult,
                   clock, recentRequests, lastAdmit, usage0, scheduler, adminResult>>

(* --------------------------- SchedulerService -------------------------- *)
\* Date.getDate(): an instant of the calendar clock is one day, the period of
\* the scheduler's timer
getDate(t) == (t % MonthLen) + 1

\* fault: the day of the month taken zero-based
isFirstOfMonthZeroBased(t) == getDate(t) = 0

\* performMonthlyReset: the test currentDay !== 1 that ends the call early
isFirstOfMonth(t) == getDate(t) = 1

\* performMonthlyReset up to its await: the scheduler with one more call
\* suspended at userService.resetMonthlyUsage(), or as it was
performMonthlyReset(s) ==
    IF isFirstOfMonth(now) THEN [s EXCEPT !.sweeps = @ + 1] ELSE s

\* fault: the test of isRunning that ends a second start early is missing
startMonthlyResetUnguarded ==
    /\ scheduler.sweeps < MaxInFlight
    /\ scheduler' = [performMonthlyReset(scheduler) EXCEPT
                        !.monthlyResetInterval = now + 1,
                        !.timers = @ + 1,
                        !.isRunning = TRUE]
    /\ UNCHANGED <<users, now, pc, req, resetCheck, result, sweepResult, sweepRuns, period,
                   clock, recentRequests, lastAdmit, usage0, adminResult>>

\* startMonthlyReset: the immediate performMonthlyReset and setInterval(24 h)
startMonthlyReset ==
    /\ scheduler.sweeps < MaxInFlight
    /\ scheduler' = IF scheduler.isRunning
                    THEN scheduler
                    ELSE [performMonthlyReset(scheduler) EXCEPT
                             !.monthlyResetInterval = now + 1,
                             !.timers = @ + 1,
                             !.isRunning = TRUE]
    /\ UNCHANGED <<users, now, pc, req, resetCheck, result, sweepResult, sweepRuns, period,
                   clock, recentRequests, lastAdmit, usage0, adminResult>>

\* fault: the timer is not cleared
stopMonthlyResetKeepsInterval ==
    /\ scheduler' = [scheduler EXCEPT !.isRunning = FALSE]
    /\ UNCHANGED <<users, now, pc, req, resetCheck, result, sweepResult, sweepRuns, period,
                   clock, recentRequests, lastAdmit, usage0, adminResult>>

\* stopMonthlyReset: clearInterval, monthlyResetInterval = null, isRunning = false
stopMonthlyReset ==
    /\ scheduler' = [scheduler EXCEPT
                        !.timers = IF scheduler.monthlyResetInterval # NoInterval
                                   THEN @ - 1 ELSE @,
                        !.monthlyResetInterval = NoInterval,
                        !.isRunning = FALSE]
    /\ UNCHANGED <<users, now, pc, req, resetCheck, result, sweepResult, sweepRuns, period,
                   clock, recentRequests, lastAdmit, usage0, adminResult>>

\* the callback of setInterval, 24 hours after the last firing
monthlyResetIntervalFires ==
    /\ scheduler.timers > 0
    /\ scheduler.monthlyResetInterval = now
    /\ scheduler' = [performMonthlyReset(scheduler) EXCEPT !.monthlyResetInterval = now + 1]
    /\ UNCHANGED <<users, now, pc, req, resetCheck, result, sweepResult, sweepRuns, period,
                   clock, recentRequests, lastAdmit, usage0, adminResult>>

\* the nextCheck of a scheduler without a timer
undefined == -1

\* getStatus: isRunning, and nextCheck 24 hours ahead when monthlyResetInterval
\* is set, undefined otherwise
getStatus ==
    [isRunning |-> scheduler.isRunning,
     nextCheck |-> IF scheduler.monthlyResetInterval # NoInterval THEN now + 1 ELSE undefined]

\* performMonthlyReset resumed: the query of resetMonthlyUsage() it awaited
performMonthlyResetSweep ==
    /\ scheduler.sweeps > 0
    /\ SweepUpdate
    /\ scheduler' = [scheduler EXCEPT !.sweeps = @ - 1, !.errors = 0]
    /\ UNCHANGED <<now, pc, req, resetCheck, result, clock, recentRequests, lastAdmit,
                   usage0, adminResult>>

\* fault: the failure of the store ends the scheduler
performMonthlyResetSweepFailsStops ==
    /\ scheduler.sweeps > 0
    /\ sweepResult' = 0
    /\ scheduler' = [NotStarted EXCEPT !.sweeps = scheduler.sweeps - 1, !.errors = 1]
    /\ UNCHANGED <<users, now, pc, req, resetCheck, result, sweepRuns, period, clock,
                   recentRequests, lastAdmit, usage0, adminResult>>

\* performMonthlyReset resumed with the store rejecting the UPDATE: the catch
\* of resetMonthlyUsage returns resetCount 0 and the message in errors, which
\* performMonthlyReset logs
performMonthlyResetSweepFails ==
    /\ scheduler.sweeps > 0
    /\ sweepResult' = 0
    /\ scheduler' = [scheduler EXCEPT !.sweeps = @ - 1, !.errors = 1]
    /\ UNCHANGED <<users, now, pc, req, resetCheck, result, sweepRuns, period, clock,
                   recentRequests, lastAdmit, usage0, adminResult>>

(* --------------------------- AdminController --------------------------- *)
\* resetUserUsage: resetMonthlyUsage(userId), UPDATE ... WHERE id = $1, and
\* the response built from resetCount
resetUserUsage(id) ==
    /\ LET rows == IF id \in DOMAIN users THEN {id} ELSE {} IN
         /\ users' = [u \in DOMAIN users |->
                         IF u \in rows THEN ResetRow(users[u], now) ELSE users[u]]
         /\ period' = PeriodAfterReset(rows)
         /\ adminResult' = [kind |-> "resetUserUsage", userId |-> id, status |-> 200,
                            resetCount |-> Cardinality(rows)]
    /\ UNCHANGED <<now, pc, req, resetCheck, result, sweepResult, sweepRuns, clock,
                   recentRequests, lastAdmit, usage0, scheduler>>

\* resetAllUsage: resetMonthlyUsage() and the response built from resetCount
resetAllUsage ==
    /\ SweepUpdate
    /\ adminResult' = [kind |-> "resetAllUsage", userId |-> NoUser, status |-> 200,
                       resetCount |-> sweepResult']
    /\ UNCHANGED <<now, pc, req, resetCheck, result, clock, recentRequests, lastAdmit,
                   usage0, scheduler>>

\* resetAllUsage when the store raises an error on the row of a due account:
\* the UPDATE is one statement and is rolled back, the catch of
\* resetMonthlyUsage() records the error with resetCount 0, the response is 500
resetAllUsageFails(bad) ==
    /\ bad \in DOMAIN users
    /\ SweepDue(users[bad].billingPeriodStart, now)
    /\ sweepResult' = 0
    /\ adminResult' = [kind |-> "resetAllUsage", userId |-> bad, status |-> 500,
                       resetCount |-> 0]
    /\ UNCHANGED <<users, now, pc, req, resetCheck, result, sweepRuns, period, clock,
                   recentRequests, lastAdmit, usage0, scheduler>>

(* ------------------- account creation and maintenance ------------------ *)
\* what the callers of updateUser pass: profile fields, and the tier and limit
\* of the admin account
UpdateInputs ==
    { [firstName |-> "A"],
      [subscriptionTier |-> "enterprise", monthlyLimit |-> -1] }

\* <new_usage_count> on the command line of update-usage.js
UsageInputs == {-1, 0, getMonthlyLimit("free")}

\* createUser: INSERT with usage_count 0 and the limit of the free tier;
\* last_usage_reset and billing_period_start are not in the column list and
\* take the table's DEFAULT NOW()
createUser(id) ==
    /\ id \notin DOMAIN users
    /\ users' = [u \in DOMAIN users \cup {id} |->
                    IF u = id
                    THEN [subscriptionTier |-> "free",
                          monthlyLimit |-> getMonthlyLimit("free"),
                          usageCount |-> 0,
                          billingPeriodStart |-> now,
                          lastUsageReset |-> now]
                    ELSE users[u]]
    /\ UNCHANGED <<now, pc, req, resetCheck, result, sweepResult, sweepRuns, period,
                   clock, recentRequests, lastAdmit, usage0, scheduler, adminResult>>

\* updateUser: UPDATE users SET <every field of updateData> WHERE id = $n
updateUser(id, updateData) ==
    /\ id \in DOMAIN users
    /\ users' = [users EXCEPT ![id] =
                    [f \in DOMAIN users[id] |->
                        IF f \in DOMAIN updateData THEN updateData[f] ELSE users[id][f]]]
    /\ UNCHANGED <<now, pc, req, resetCheck, result, sweepResult, sweepRuns, period,
                   clock, recentRequests, lastAdmit, usage0, scheduler, adminResult>>

\* scripts/update-usage.js: UPDATE users SET usage_count = $1 WHERE email = $2
updateUsageCount(id, newUsageCount) ==
    /\ id \in DOMAIN users
    /\ users' = [users EXCEPT ![id].usageCount = newUsageCount]
    /\ UNCHANGED <<now, pc, req, resetCheck, result, sweepResult, sweepRuns, period,
                   clock, recentRequests, lastAdmit, usage0, scheduler, adminResult>>

(* ------------------------- UsageController ---------------------------- *)
RequestTooFrequent ==
    [kind |-> "increment", user |-> Null, canIncrement |-> FALSE,
     error |-> "Request too frequent", wasReset |-> FALSE, status |-> 429]

Thrown ==
    [kind |-> "increment", user |-> Null, canIncrement |-> FALSE,
     error |-> "thrown", wasReset |-> FALSE, status |-> 0]

\* fault: incrementUsageCount goes to its conditional UPDATE without
\* checkAndResetMonthlyUsage
incrementUsageNoReconcile(c, id) ==
    /\ pc[c] = "idle"
    /\ req' = [req EXCEPT ![c] = [op |-> "incrementUsage", userId |-> id]]
    /\ IF tooFrequent(recentRequests, id, clock)
       THEN /\ result' = [result EXCEPT ![c] = RequestTooFrequent]
            /\ pc' = [pc EXCEPT ![c] = "done"]
            /\ UNCHANGED <<recentRequests, lastAdmit>>
       ELSE /\ recentRequests' =
                  cleanup([k \in DOMAIN recentRequests \cup {id} |->
                              IF k = id THEN clock ELSE recentRequests[k]], clock)
            /\ lastAdmit' = [lastAdmit EXCEPT ![id] = clock]
            /\ pc' = [pc EXCEPT ![c] = "update"]
            /\ UNCHANGED result
    /\ UNCHANGED <<users, now, resetCheck, sweepResult, sweepRuns, period, clock, usage0, scheduler, adminResult>>

\* incrementUsage up to its first await: the guard, recentRequests.set, the
\* cleanup loop and the call of userService.incrementUsageCount
incrementUsage(c, id) ==
    /\ pc[c] = "idle"
    /\ req' = [req EXCEPT ![c] = [op |-> "incrementUsage", userId |-> id]]
    /\ IF tooFrequent(recentRequests, id, clock)
       THEN /\ result' = [result EXCEPT ![c] = RequestTooFrequent]
            /\ pc' = [pc EXCEPT ![c] = "done"]
            /\ UNCHANGED <<recentRequests, lastAdmit>>
       ELSE /\ recentRequests' =
                  cleanup([k \in DOMAIN recentRequests \cup {id} |->
                              IF k = id THEN clock ELSE recentRequests[k]], clock)
            /\ lastAdmit' = [lastAdmit EXCEPT ![id] = clock]
            /\ pc' = [pc EXCEPT ![c] = "check_find"]
            /\ UNCHANGED result
    /\ UNCHANGED <<users, now, resetCheck, sweepResult, sweepRuns, period, clock, usage0, scheduler, adminResult>>

\* dbService.query rejects at the await the request is suspended at: the
\* try/catch of checkAndResetMonthlyUsage and of resetMonthlyUsage absorb it,
\* the conditional UPDATE and the re-read let it reach the controller's catch
StoreError(c) ==
    /\ pc[c] \in {"check_find", "check_reset", "check_refetch", "update", "recheck"}
    /\ CASE pc[c] \in {"check_find", "check_refetch"} -> Finish(c, NotFound)
         [] pc[c] = "check_reset" ->
               /\ pc' = [pc EXCEPT ![c] = "update"]
               /\ resetCheck' = [resetCheck EXCEPT ![c].user = Null]
               /\ UNCHANGED result
         [] OTHER -> Finish(c, Thrown)
    /\ UNCHANGED <<users, now, req, sweepResult, sweepRuns, period, clock, recentRequests,
                   lastAdmit, usage0, scheduler, adminResult>>

\* router.post('/increment', ...): a client that was answered sends its next
\* request
nextRequest(c) ==
    /\ pc[c] = "done"
    /\ pc' = [pc EXCEPT ![c] = "idle"]
    /\ req' = [req EXCEPT ![c] = [op |-> "none", userId |-> NoUser]]
    /\ result' = [result EXCEPT ![c] = NoResult]
    /\ resetCheck' = [resetCheck EXCEPT ![c] = NoCheck]
    /\ UNCHANGED <<users, now, sweepResult, sweepRuns, period, clock, recentRequests,
                   lastAdmit, usage0, scheduler, adminResult>>

\* Date.now() advances
ClockTick(d) ==
    /\ clock + d <= MaxClock
    /\ clock' = clock + d
    /\ UNCHANGED <<users, now, pc, req, resetCheck, result, sweepResult, sweepRuns, period,
                   recentRequests, lastAdmit, usage0, scheduler, adminResult>>

Next ==
    \/ \E c \in Callers, id \in UserIds : CallIncrementUsageCount(c, id)
    \/ \E c \in Callers : CheckFind(c)
    \/ \E c \in Callers : CheckReset(c)
    \/ \E c \in Callers : CheckRefetch(c)
    \/ \E c \in Callers : Update(c)
    \/ \E c \in Callers : Recheck(c)
    \/ \E c \in Callers, id \in UserIds : getUsage(c, id)
    \/ resetMonthlyUsage
    \/ Tick

Spec == Init /\ [][Next]_vars

NextGuard ==
    \/ \E c \in Callers, id \in GuardIds : incrementUsage(c, id)
    \/ \E c \in Callers : CheckFind(c)
    \/ \E c \in Callers : CheckReset(c)
    \/ \E c \in Callers : CheckRefetch(c)
    \/ \E c \in Callers : Update(c)
    \/ \E c \in Callers : Recheck(c)
    \/ \E c \in Callers : StoreError(c)
    \/ \E d \in ClockSteps : ClockTick(d)

SpecGuard == InitGuard /\ [][NextGuard]_vars

\* the server comes up on any day, over accounts that are current or were
\* left in the month before (on its first or its last day)
InitSched ==
    /\ now \in 0..MaxNow
    /\ \E n \in 0..MaxLimit, b \in {-MonthLen, -1, 0} :
          users = [id \in UserIds |->
                      [InitUsers(n, -1)[id] EXCEPT !.billingPeriodStart = b,
                                                   !.lastUsageReset = b]]
    /\ InitRest

NextSched ==
    \/ startMonthlyReset
    \/ stopMonthlyReset
    \/ monthlyResetIntervalFires
    \/ performMonthlyResetSweep
    \/ Tick

SpecSched == InitSched /\ [][NextSched]_vars

\* the timer fires every 24 hours while it is set, an awaited query returns,
\* and days pass
SpecSchedFair ==
    /\ SpecSched
    /\ WF_vars(monthlyResetIntervalFires)
    /\ WF_vars(performMonthlyResetSweep)
    /\ WF_vars(Tick)

\* the admin's resets among the requests, in the month the accounts are
\* current in and in the month after it; the metered account has one slot
\* less, so that after a reset the other requests fill it again
InitAdmin ==
    /\ now \in {0, MonthLen}
    /\ \E n \in 0..(MaxLimit - 1) :
          users = [InitUsers(n, -1) EXCEPT !["u1"].monthlyLimit = MaxLimit - 1]
    /\ InitRest

NextAdmin ==
    \/ \E c \in Callers, id \in GuardIds : CallIncrementUsageCount(c, id)
    \/ \E c \in Callers : CheckFind(c)
    \/ \E c \in Callers : CheckReset(c)
    \/ \E c \in Callers : CheckRefetch(c)
    \/ \E c \in Callers : Update(c)
    \/ \E c \in Callers : Recheck(c)
    \/ \E id \in GuardIds : resetUserUsage(id)
    \/ resetAllUsage
    \/ \E bad \in UserIds : resetAllUsageFails(bad)

SpecAdmin == InitAdmin /\ [][NextAdmin]_vars

\* registration and maintenance of accounts among the requests and resets
InitOps ==
    /\ now = 0
    /\ users = InitUsers(0, -1)
    /\ InitRest

NextOps ==
    \/ \E id \in NewIds : createUser(id)
    \/ \E id \in NewIds, updateData \in UpdateInputs : updateUser(id, updateData)
    \/ \E id \in NewIds, n \in UsageInputs : updateUsageCount(id, n)
    \/ \E c \in Callers, id \in NewIds : CallIncrementUsageCount(c, id)
    \/ \E c \in Callers : CheckFind(c)
    \/ \E c \in Callers : CheckReset(c)
    \/ \E c \in Callers : CheckRefetch(c)
    \/ \E c \in Callers : Update(c)
    \/ \E c \in Callers : Recheck(c)
    \/ \E id \in NewIds : resetUserUsage(id)
    \/ resetAllUsage
    \/ Tick

SpecOps == InitOps /\ [][NextOps]_vars

\* the two due tests side by side: both accounts anchored at any instant of
\* the month before or of the time up to now, first of a month or not
InitDue ==
    /\ now \in 0..MaxNow
    /\ \E b1, b2 \in (0 - MonthLen)..now :
          users = [InitUsers(MaxLimit - 1, -1) EXCEPT
                      !["u1"].billingPeriodStart = b1, !["u1"].lastUsageReset = b1,
                      !["u2"].billingPeriodStart = b2, !["u2"].lastUsageReset = b2]
    /\ InitRest

NextDue ==
    \/ \E c \in Callers : CallIncrementUsageCount(c, "u1")
    \/ \E c \in Callers : CheckFind(c)
    \/ \E c \in Callers : CheckReset(c)
    \/ \E c \in Callers : CheckRefetch(c)
    \/ \E c \in Callers : Update(c)
    \/ \E c \in Callers : Recheck(c)
    \/ resetMonthlyUsage
    \/ Tick

SpecDue == InitDue /\ [][NextDue]_vars

\* concurrent incrementUsageCount calls on the metered account u1, whose
\* limit is below the number of callers, with sweeps and month changes
NextMeter ==
    \/ \E c \in Callers : CallIncrementUsageCount(c, "u1")
    \/ \E c \in Callers : CheckFind(c)
    \/ \E c \in Callers : CheckReset(c)
    \/ \E c \in Callers : CheckRefetch(c)
    \/ \E c \in Callers : Update(c)
    \/ \E c \in Callers : Recheck(c)
    \/ resetMonthlyUsage
    \/ Tick

SpecMeter == InitAdmin /\ [][NextMeter]_vars

\* the scheduler over a store that may reject the sweep's UPDATE; timers fire,
\* days pass and an awaited query settles, one way or the other
NextSchedFail ==
    \/ NextSched
    \/ performMonthlyResetSweepFails

SpecSchedFail ==
    /\ InitSched
    /\ [][NextSchedFail]_vars
    /\ WF_vars(monthlyResetIntervalFires)
    /\ WF_vars(performMonthlyResetSweep \/ performMonthlyResetSweepFails)
    /\ WF_vars(Tick)

\* sequences of requests longer than the number of clients: a client sends
\* its next request once it was answered; the accounts are due for a reset
InitWindow ==
    /\ now = MonthLen
    /\ users = InitUsers(0, -1)
    /\ InitRest

NextWindow ==
    \/ \E c \in Callers, id \in GuardIds : incrementUsage(c, id)
    \/ \E c \in Callers : CheckFind(c)
    \/ \E c \in Callers : CheckReset(c)
    \/ \E c \in Callers : CheckRefetch(c)
    \/ \E c \in Callers : Update(c)
    \/ \E c \in Callers : Recheck(c)
    \/ \E c \in Callers : nextRequest(c)
    \/ \E d \in ClockSteps : ClockTick(d)

SpecWindow == InitWindow /\ [][NextWindow]_vars

(* ============================ properties ============================== *)
IncrementCalls(id) ==
    {c \in Callers : req[c].op = "incrementUsageCount" /\ req[c].userId = id}

Accepted(id) ==
    {c \in IncrementCalls(id) : pc[c] = "done" /\ result[c].canIncrement}

LimitExceeded(id) ==
    {c \in IncrementCalls(id) :
        pc[c] = "done" /\ result[c].error = "Usage limit exceeded"}

\* no call is in flight
Quiescent == \A c \in Callers : pc[c] \in {"idle", "done"}

\* C1: a metered account that is not due (the clock is still in the month of
\* its billing_period_start), K = monthlyLimit - usageCount >= 0 slots left
\* and N > K incrementUsageCount calls, interleaved in any way: once all have
\* returned exactly K were accepted, exactly N - K got 'Usage limit
\* exceeded', and usage_count equals monthly_limit.
C1_AtomicAdmission ==
    \A id \in UserIds :
        LET N == Cardinality(IncrementCalls(id))
            K == users[id].monthlyLimit - usage0[id]
        IN  ( /\ users[id].subscriptionTier # "enterprise"
              /\ Month(now) = 0
              /\ users[id].billingPeriodStart = 0
              /\ Quiescent
              /\ K >= 0
              /\ N > K )
            => /\ Cardinality(Accepted(id)) = K
               /\ Cardinality(LimitExceeded(id)) = N - K
               /\ users[id].usageCount = users[id].monthlyLimit

C1_Witness ==
    /\ Quiescent
    /\ Month(now) = 0
    /\ usage0["u1"] = MaxLimit - 1
    /\ Cardinality(IncrementCalls("u1")) >= 2
    /\ Cardinality(Accepted("u1")) = 1
    /\ Cardinality(LimitExceeded("u1")) >= 1

\* C2: once all calls have returned, usage_count of an account equals the
\* number of increments accepted since its billing_period_start was first
\* advanced to the current month (no reset erases an increment of the new
\* period).
C2_NoLostIncrement ==
    \A id \in UserIds :
        Quiescent => users[id].usageCount = period[id].accepted

\* the requests that were told wasReset: true for the current month
Observers(id) ==
    {c \in Callers : /\ req[c].userId = id
                     /\ resetCheck[c].wasReset
                     /\ resetCheck[c].at = Month(now)}

\* C3: per account and month transition the reset UPDATE takes effect exactly
\* once (never twice, and once if the account has been advanced to the
\* current month), and at most one caller observes wasReset = true.
C3_OneResetPerTransition ==
    \A id \in UserIds :
        /\ period[id].resets <= 1
        /\ Cardinality(Observers(id)) <= 1
        /\ ( Month(now) > 0 /\ Month(users[id].billingPeriodStart) = Month(now) )
               => period[id].resets = 1

\* C4: a getUsage answer for an account whose billing_period_start lies in a
\* month before the current one reports usageCount = 0.
C4_LazyReconcileBeforeRead ==
    \A c \in Callers :
        ( /\ pc[c] = "done"
          /\ req[c].op = "getUsage"
          /\ result[c].status = 200
          /\ result[c].due )
        => result[c].usageCount = 0

\* C5: in the state right after an accepted increment of a non-enterprise
\* account, usage_count <= monthly_limit.
C5_WithinLimitAfterIncrement ==
    [][ \A c \in Callers :
          ( /\ pc[c] = "update"
            /\ pc'[c] = "done"
            /\ result'[c].canIncrement
            /\ users[req[c].userId].subscriptionTier # "enterprise" )
          => users'[req[c].userId].usageCount <= users'[req[c].userId].monthlyLimit
      ]_vars

C5_Witness ==
    \E c \in Callers :
        /\ pc[c] = "done"
        /\ req[c].op = "incrementUsageCount"
        /\ result[c].canIncrement
        /\ result[c].user.subscriptionTier = "free"
        /\ result[c].user.usageCount = result[c].user.monthlyLimit
        /\ result[c].wasReset

EnterpriseCall(c) ==
    /\ req[c].op = "incrementUsageCount"
    /\ req[c].userId \in UserIds
    /\ users[req[c].userId].subscriptionTier = "enterprise"

\* C6: an incrementUsageCount call on an existing enterprise account returns
\* canIncrement = true, and its UPDATE raises usage_count by exactly 1,
\* whatever monthly_limit and usage_count are.
C6_UnmeteredBypass ==
    [][ \A c \in Callers :
          EnterpriseCall(c)' =>
            /\ pc'[c] = "done" => result'[c].canIncrement
            /\ (pc[c] = "update" /\ pc'[c] # "update") =>
                  /\ pc'[c] = "done"
                  /\ users'[req[c].userId].usageCount
                        = users[req[c].userId].usageCount + 1
      ]_vars

C6_Witness ==
    \E c \in Callers :
        /\ EnterpriseCall(c)
        /\ pc[c] = "done"
        /\ result[c].canIncrement
        /\ users[req[c].userId].monthlyLimit = 0
        /\ result[c].user.usageCount = 2

\* C7: checkAndResetMonthlyUsage on an account whose billing_period_start is
\* in a prior month goes on to the reset; the reset leaves usage_count = 0,
\* billing_period_start = the first instant of the current month and
\* last_usage_reset = now; and the call reports wasReset = true.
C7_CycleRollover ==
    [][ \A c \in Callers :
          LET id == req[c].userId IN
            /\ ( /\ pc[c] = "check_find"
                 /\ pc'[c] # "check_find"
                 /\ id \in UserIds
                 /\ Month(users[id].billingPeriodStart) < Month(now) )
               => pc'[c] = "check_reset"
            /\ ( pc[c] = "check_reset" /\ pc'[c] # "check_reset" )
               => /\ pc'[c] = "check_refetch"
                  /\ users'[id].usageCount = 0
                  /\ users'[id].billingPeriodStart % MonthLen = 0
                  /\ Month(users'[id].billingPeriodStart) = Month(now)
                  /\ users'[id].lastUsageReset = now
            /\ ( pc[c] = "check_refetch" /\ pc'[c] # "check_refetch" )
               => /\ pc'[c] = "update"
                  /\ resetCheck'[c].wasReset
      ]_vars

C7_Witness ==
    \E c \in Callers :
        /\ pc[c] = "check_refetch"
        /\ resetCheck[c].user # Null
        /\ resetCheck[c].user.usageCount > 0
        /\ now % MonthLen # 0
        /\ users[req[c].userId].usageCount = 0
        /\ users[req[c].userId].billingPeriodStart = now - (now % MonthLen)
        /\ users[req[c].userId].lastUsageReset = now

\* a step of the sweep: no request moves and no clock advances
SweepStep ==
    /\ pc' = pc
    /\ now' = now
    /\ clock' = clock

\* C8: checkAndResetMonthlyUsage on an account that is already in the current
\* month changes no row and reports wasReset = false; and a sweep in a month
\* that an earlier sweep already ran in changes no row and returns
\* resetCount = 0.
C8_ReconcileIdempotent ==
    [][ /\ \A c \in Callers :
             ( /\ pc[c] = "check_find"
               /\ pc'[c] # "check_find"
               /\ req[c].userId \in UserIds
               /\ Month(users[req[c].userId].billingPeriodStart) = Month(now) )
             => /\ pc'[c] = "update"
                /\ ~resetCheck'[c].wasReset
                /\ users' = users
        /\ ( SweepStep /\ sweepRuns # "none" )
           => /\ users' = users
              /\ sweepResult' = 0
      ]_vars

C8_Witness ==
    /\ sweepRuns = "more"
    /\ sweepResult = 0
    /\ \A id \in UserIds : period[id].resets = 1
    /\ \E c \in Callers :
          /\ pc[c] = "update"
          /\ ~resetCheck[c].wasReset

\* the step in which request c passes through the guard for user id
GuardStep(c) ==
    /\ pc[c] = "idle"
    /\ pc'[c] # "idle"
    /\ req'[c].op = "incrementUsage"

Rejected(c) ==
    /\ pc[c] = "done"
    /\ result[c].status = 429
    /\ result[c].error = "Request too frequent"

\* C9: the guard rejects with 429 exactly when the map holds an entry for the
\* account with now - lastAttempt < 5000 ms, and then leaves the map as it
\* was; otherwise (no entry, or now - lastAttempt >= 5000) it stores now for
\* the account and lets the request go on to incrementUsageCount.
C9_GuardAdmission ==
    [][ \A c \in Callers :
          GuardStep(c) =>
            LET id == req'[c].userId
                hit == /\ id \in DOMAIN recentRequests
                       /\ clock - recentRequests[id] < 5000
            IN  /\ Rejected(c)' <=> hit
                /\ hit => recentRequests' = recentRequests
                /\ ~hit => /\ id \in DOMAIN recentRequests'
                           /\ recentRequests'[id] = clock
                           /\ pc'[c] = "check_find"
      ]_vars

C9_Witness ==
    \E c1, c2 \in Callers :
        /\ c1 # c2
        /\ req[c1].userId = req[c2].userId
        /\ pc[c1] # "idle" /\ ~Rejected(c1)
        /\ pc[c2] # "idle" /\ ~Rejected(c2)
        /\ req[c1].op = "incrementUsage"
        /\ req[c2].op = "incrementUsage"
        /\ clock = 5000
        /\ recentRequests[req[c1].userId] = 5000

\* C10: an attempt for an account less than 5 s after the last admitted
\* attempt for it is answered 429 REQUEST_TOO_FREQUENT, goes no further and
\* changes no row, whatever became of the admitted attempt; an attempt 10 s
\* after it goes on to incrementUsageCount.
C10_DuplicateSuppression ==
    [][ \A c \in Callers :
          ( GuardStep(c) /\ lastAdmit[req'[c].userId] >= 0 ) =>
            LET gap == clock - lastAdmit[req'[c].userId] IN
              /\ gap < 5000 => ( Rejected(c)' /\ users' = users )
              /\ gap = 10000 => pc'[c] = "check_find"
      ]_vars

C10_Witness ==
    \E c1, c2 \in Callers :
        /\ c1 # c2
        /\ req[c1].op = "incrementUsage"
        /\ req[c2].op = "incrementUsage"
        /\ req[c1].userId = req[c2].userId
        /\ pc[c1] = "done"
        /\ result[c1].error = "thrown"
        /\ result[c1].status = 500
        /\ Rejected(c2)
        /\ clock - lastAdmit[req[c1].userId] = 4000

\* the steps of the scheduler
StartStep == ~scheduler.isRunning /\ scheduler'.isRunning

StopStep == scheduler.isRunning /\ ~scheduler'.isRunning

FireStep ==
    /\ scheduler.monthlyResetInterval # NoInterval
    /\ scheduler'.monthlyResetInterval = scheduler.monthlyResetInterval + 1

\* C21: the status is truthful: getStatus().isRunning is true exactly when a
\* repeating timer is active, nextCheck is defined exactly when isRunning is
\* true, at most one timer is active (a second start while running and a
\* start-stop-start sequence included), and a timer is created only by a start
\* of a scheduler that is not running and has none
C21_StatusTruthful ==
    /\ [](/\ getStatus.isRunning <=> scheduler.timers > 0
          /\ getStatus.nextCheck # undefined <=> getStatus.isRunning
          /\ scheduler.timers <= 1)
    /\ [][ scheduler'.timers > scheduler.timers =>
              (~scheduler.isRunning /\ scheduler.timers = 0) ]_vars

\* started, stopped and started again within the first day of a month: both
\* starts left their immediate check suspended and one timer is active
C21_Witness ==
    /\ now = 0
    /\ scheduler.isRunning
    /\ scheduler.sweeps = 2
    /\ scheduler.timers = 1
    /\ getStatus.nextCheck = 1

C23_DuePredicatesAgree ==
    /\ [](\A id \in UserIds :
             LazyDue(users[id].billingPeriodStart, now)
                <=> SweepDue(users[id].billingPeriodStart, now))
    /\ [][ /\ \A c \in Callers :
               pc[c] = "check_find" /\ pc'[c] \in {"check_reset", "update"} =>
                  ( pc'[c] = "check_reset"
                      <=> SweepDue(users[req[c].userId].billingPeriodStart, now) )
           /\ (SweepStep /\ sweepRuns' # sweepRuns) =>
                \A id \in UserIds :
                   users'[id] # users[id]
                      <=> LazyDue(users[id].billingPeriodStart, now)
         ]_vars

\* a request found an account due whose billingPeriodStart is not the first
\* instant of a month, and a sweep at the same time takes the same account
C23_Witness ==
    \E c \in Callers :
        /\ pc[c] = "check_reset"
        /\ users[req[c].userId].billingPeriodStart % MonthLen # 0
        /\ SweepDue(users[req[c].userId].billingPeriodStart, now)

\* C24: right after every admitted incrementUsage at time now the guard map
\* holds no entry with now - timestamp > 10000 and holds the entry of the
\* requesting account with timestamp now.
C24_CleanupAfterAdmission ==
    [][ \A c \in Callers :
          (GuardStep(c) /\ ~Rejected(c)') =>
             /\ \A k \in DOMAIN recentRequests' : ~(clock - recentRequests'[k] > 10000)
             /\ req'[c].userId \in DOMAIN recentRequests'
             /\ recentRequests'[req'[c].userId] = clock
      ]_vars

\* an admitted request removed the entry another account left more than 10 s
\* before, and stored its own
C24_Witness ==
    \E c \in Callers, k \in GuardIds :
        /\ req[c].op = "incrementUsage"
        /\ pc[c] = "check_find"
        /\ k # req[c].userId
        /\ lastAdmit[k] >= 0
        /\ clock - lastAdmit[k] > 10000
        /\ k \notin DOMAIN recentRequests
        /\ recentRequests[req[c].userId] = clock

\* C25: for every metered account, the number of increments accepted since
\* its period was advanced to the current month never exceeds monthlyLimit,
\* in any interleaving of incrementUsageCount calls, lazy resets and sweeps.
C25_MeteringBound ==
    \A id \in UserIds :
        users[id].subscriptionTier # "enterprise" =>
            period[id].accepted <= users[id].monthlyLimit

\* the requests for an account that passed the guard
Admitted(id) ==
    {c \in Callers : /\ req[c].op = "incrementUsage"
                     /\ req[c].userId = id
                     /\ pc[c] # "idle"
                     /\ ~Rejected(c)}

\* C26: of the incrementUsage requests for one account whose guard checks
\* fall within one 5-second window (less than 5000 ms from the first to the
\* last) at most one passes the guard, wherever the store calls of the
\* admitted one stand: a request passes only 5000 ms or more after the last
\* one that passed, so k requests that passed span at least (k - 1) * 5000 ms.
C26_OneAdmissionPerWindow ==
    /\ [](\A id \in GuardIds : (Cardinality(Admitted(id)) - 1) * 5000 <= clock)
    /\ [][ \A c \in Callers :
             (GuardStep(c) /\ ~Rejected(c)' /\ Admitted(req'[c].userId) # {}) =>
                 /\ lastAdmit[req'[c].userId] >= 0
                 /\ clock - lastAdmit[req'[c].userId] >= 5000
         ]_vars

\* two requests for one account checked within 5 s: the first passed and is
\* suspended at a store call, the second was rejected
C26_Witness ==
    \E c1, c2 \in Callers :
        /\ req[c1].op = "incrementUsage"
        /\ req[c2].op = "incrementUsage"
        /\ req[c1].userId = req[c2].userId
        /\ pc[c1] \in {"check_reset", "check_refetch", "update", "recheck"}
        /\ Rejected(c2)
        /\ clock < 5000
        /\ Cardinality(Admitted(req[c1].userId)) = 1

\* the guard map as it would be had the cleanup loop never run: the last
\* admitted timestamp of every account that was ever admitted
withoutCleanup == [k \in {j \in Ids : lastAdmit[j] >= 0} |-> lastAdmit[k]]

\* C27: for request sequences with non-decreasing timestamps every admit or
\* reject outcome of the guard is the one the guard gives on the map that
\* the cleanup loop never touched.
C27_CleanupTransparent ==
    [][ \A c \in Callers :
          GuardStep(c) =>
             ( Rejected(c)' <=> tooFrequent(withoutCleanup, req'[c].userId, clock) )
      ]_vars

\* the cleanup of an admitted request deleted the entry of another account,
\* and the guard then rejected a request on the map that lacks it
C27_Witness ==
    \E c1, c2 \in Callers, k \in GuardIds :
        /\ req[c1].op = "incrementUsage"
        /\ pc[c1] = "check_find"
        /\ req[c2].userId = req[c1].userId
        /\ Rejected(c2)
        /\ k # req[c1].userId
        /\ lastAdmit[k] >= 0
        /\ k \notin DOMAIN recentRequests
        /\ withoutCleanup # recentRequests

\* C28: whenever incrementUsageCount returns 'Usage limit exceeded' with a
\* user record, that record has usageCount >= monthlyLimit, also when a reset
\* ran between the failed conditional UPDATE and the re-read.
C28_RejectionJustified ==
    \A c \in Callers :
        ( /\ pc[c] = "done"
          /\ result[c].kind = "increment"
          /\ result[c].error = "Usage limit exceeded" )
            => result[c].user.usageCount >= result[c].user.monthlyLimit

\* C29: incrementUsage answers 'User not found' (404) only for an id that
\* has no account in the store; a store failure during the reconciliation
\* read of an existing account is not reported as 'User not found'.
C29_NotFoundOnlyForAbsent ==
    \A c \in Callers :
        ( /\ pc[c] = "done"
          /\ req[c].op = "incrementUsage"
          /\ result[c].error = "User not found"
          /\ result[c].status = 404 )
            => req[c].userId \notin DOMAIN users

\* a scheduled sweep ended with the failure of the store
SchedSweepFailStep ==
    /\ scheduler'.sweeps < scheduler.sweeps
    /\ scheduler'.errors > 0

\* C30: when the store fails during a scheduled performMonthlyReset, the
\* sweep returns resetCount = 0 with the failure in errors, no account is
\* changed, isRunning and the timer stay as they were, and a running
\* scheduler's next firing still comes (unless it is stopped first).
C30_FailedSweepKeepsScheduler ==
    /\ [][ SchedSweepFailStep =>
              /\ users' = users
              /\ sweepResult' = 0
              /\ scheduler'.isRunning = scheduler.isRunning
              /\ scheduler'.timers = scheduler.timers
              /\ scheduler'.monthlyResetInterval = scheduler.monthlyResetInterval
         ]_vars
    /\ \A k \in 0..MaxNow :
          ( /\ scheduler.isRunning
            /\ scheduler.errors > 0
            /\ scheduler.monthlyResetInterval = k )
             ~> ( scheduler.monthlyResetInterval > k \/ ~scheduler.isRunning )

\* a scheduled sweep failed in a running scheduler: on the day after, an
\* account is still due and the one timer is armed for the next day
C30_Witness ==
    /\ scheduler.isRunning
    /\ scheduler.errors > 0
    /\ scheduler.timers = 1
    /\ sweepResult = 0
    /\ now = MonthLen + 1
    /\ scheduler.monthlyResetInterval = now + 1
    /\ \E id \in UserIds : SweepDue(users[id].billingPeriodStart, now)

\* C11: the start of the scheduler and every firing of its 24-hour timer
\* call userService.resetMonthlyUsage(), on any day of the month.
C11_SweepOnEveryFiring ==
    [][ (StartStep \/ FireStep) => scheduler'.sweeps = scheduler.sweeps + 1 ]_vars

Due(id) == SweepDue(users[id].billingPeriodStart, now)

\* a firing that passes the day test is still to come: today's, a sweep
\* already awaited, or the first day of a later month of the clock
FiringAhead ==
    \/ isFirstOfMonth(now) /\ scheduler.monthlyResetInterval = now
    \/ scheduler.sweeps > 0
    \/ DateTrunc(now) + MonthLen <= MaxNow

\* C12: with the scheduler running and the store answering, an idle account
\* that is due is eventually reset (or the scheduler is stopped first), and
\* one scheduled sweep resets every due account: usage_count = 0,
\* billing_period_start = the first instant of the current month, resetCount
\* = the number of due accounts.
C12_SweepKeepsIdleCurrent ==
    /\ \A id \in UserIds :
          (scheduler.isRunning /\ Due(id) /\ FiringAhead)
             ~> (~Due(id) \/ ~scheduler.isRunning)
    /\ [][ scheduler'.sweeps < scheduler.sweeps =>
             /\ \A id \in UserIds :
                   /\ Due(id) => /\ users'[id].usageCount = 0
                                 /\ users'[id].billingPeriodStart = DateTrunc(now)
                   /\ ~Due(id) => users'[id] = users[id]
             /\ sweepResult' = Cardinality({id \in UserIds : Due(id)})
       ]_vars

C12_Witness ==
    /\ scheduler.isRunning
    /\ scheduler.sweeps = 0
    /\ sweepResult = 2
    /\ now = MonthLen
    /\ usage0["u1"] > 0
    /\ \A id \in UserIds :
          /\ users[id].usageCount = 0
          /\ users[id].billingPeriodStart = MonthLen
          /\ users[id].lastUsageReset = now

\* C13: a timer firing happens only while the scheduler is running, so after
\* stopMonthlyReset none happens until startMonthlyReset; stopMonthlyReset
\* clears the timer and leaves the awaited sweeps alone, and they complete.
C13_StopHaltsFirings ==
    /\ [][ /\ FireStep => scheduler.isRunning
           /\ scheduler'.sweeps > scheduler.sweeps => (scheduler.isRunning \/ StartStep)
           /\ StopStep => /\ scheduler'.monthlyResetInterval = NoInterval
                           /\ scheduler'.sweeps = scheduler.sweeps
                           /\ users' = users
       ]_vars
    /\ (~scheduler.isRunning /\ scheduler.sweeps > 0)
          ~> (scheduler.sweeps = 0 \/ scheduler.isRunning)

C13_Witness ==
    /\ ~scheduler.isRunning
    /\ scheduler.monthlyResetInterval = NoInterval
    /\ scheduler.sweeps > 0
    /\ \E id \in UserIds : Due(id)

\* the step in which the sweep of resetAllUsage is answered with an error
SweepFailStep ==
    /\ adminResult' # adminResult
    /\ adminResult'.kind = "resetAllUsage"
    /\ adminResult'.status = 500

\* C14: when the reset of one due account fails during resetMonthlyUsage(),
\* every other due account is reset by that sweep and counted in resetCount.
C14_SweepFailureIsolated ==
    [][ SweepFailStep =>
          LET others == {id \in UserIds : Due(id)} \ {adminResult'.userId} IN
            /\ \A id \in others :
                  /\ users'[id].usageCount = 0
                  /\ users'[id].billingPeriodStart = DateTrunc(now)
            /\ sweepResult' = Cardinality(others)
      ]_vars

\* C15: a call on an existing account goes on to the conditional UPDATE
\* whatever happens in its checkAndResetMonthlyUsage: from the first read,
\* the reset and the read after it the call moves on within the
\* reconciliation or to the UPDATE, also when the store rejects the query,
\* and is not answered before the UPDATE was attempted.
C15_ReconcileFailureDoesNotBlock ==
    [][ \A c \in Callers :
          ( /\ req[c].userId \in DOMAIN users
            /\ pc[c] \in {"check_find", "check_reset", "check_refetch"}
            /\ pc'[c] # pc[c] )
          => pc'[c] \in {"check_reset", "check_refetch", "update"}
      ]_vars

\* the call has run its reset UPDATE on the row of its account, which wrote
\* usage_count = 0, billing_period_start and last_usage_reset = NOW()
RanReset(c) == resetCheck[c].at >= 0

\* C16 as stated: a call that returned canIncrement = false has written
\* usage_count, billing_period_start and last_usage_reset of no account.
C16_RejectedCallMutatesNothing ==
    \A c \in Callers :
        ( /\ pc[c] = "done"
          /\ req[c].op = "incrementUsageCount"
          /\ ~result[c].canIncrement )
        => ~RanReset(c)

\* C16 amended: a call changes rows only by its accepted UPDATE and by the
\* lazy reset of its own account, which it begins only when its first read
\* finds billing_period_start in a month before the current one; the UPDATE
\* that matched no row, the re-read and the reads of the reconciliation
\* change nothing, and a call for an absent account changes nothing.
C16_RejectionMutatesNothing ==
    [][ \A c \in Callers :
          LET id == req[c].userId IN
            ( pc[c] # "idle" /\ pc'[c] # pc[c] ) =>
              /\ id \notin DOMAIN users => users' = users
              /\ ( pc[c] = "check_find" /\ pc'[c] = "check_reset" )
                   => Month(users[id].billingPeriodStart) < Month(now)
              /\ pc[c] = "check_reset"
                   => \A u \in DOMAIN users \ {id} : users'[u] = users[u]
              /\ ( pc[c] \in {"check_find", "check_refetch", "recheck"}
                   \/ ( pc[c] = "update" /\ pc'[c] = "recheck" ) )
                   => users' = users
      ]_vars

C16_Witness ==
    \E c \in Callers :
        /\ pc[c] = "done"
        /\ req[c].op = "incrementUsageCount"
        /\ result[c].error = "Usage limit exceeded"
        /\ result[c].wasReset
        /\ RanReset(c)
        /\ usage0[req[c].userId] = 0
        /\ users[req[c].userId].usageCount = users[req[c].userId].monthlyLimit
        /\ users[req[c].userId].billingPeriodStart = MonthLen

\* C18: in every state, with accepted increments interleaved with lazy
\* resets, sweeps and the admin's resets, usage_count >= 0 for every account
\* and usage_count <= monthly_limit + 1 for every metered account.
C18_UsageWithinBounds ==
    \A id \in DOMAIN users :
        /\ users[id].usageCount >= 0
        /\ users[id].subscriptionTier # "enterprise"
              => users[id].usageCount <= users[id].monthlyLimit + 1

C18_Witness ==
    /\ adminResult.kind = "resetUserUsage"
    /\ adminResult.resetCount = 1
    /\ sweepResult >= 1
    /\ users["u1"].usageCount = users["u1"].monthlyLimit
    /\ usage0["u1"] = users["u1"].monthlyLimit
    /\ \E c \in Callers :
          /\ pc[c] = "done"
          /\ result[c].canIncrement
          /\ RanReset(c)

\* C20: after resetAllUsage answered 200 every account has usage_count = 0
\* and resetCount is the number of accounts, due or not; after
\* resetUserUsage(userId) answered 200 that account has usage_count = 0.
C20_AdminResetAll ==
    [][ adminResult' # adminResult =>
          /\ ( adminResult'.kind = "resetAllUsage" /\ adminResult'.status = 200 )
               => /\ \A id \in DOMAIN users : users'[id].usageCount = 0
                  /\ adminResult'.resetCount = Cardinality(DOMAIN users)
          /\ ( /\ adminResult'.kind = "resetUserUsage"
               /\ adminResult'.status = 200
               /\ adminResult'.userId \in DOMAIN users )
               => users'[adminResult'.userId].usageCount = 0
      ]_vars

\* C17: billing_period_start of every account is the first instant of a
\* calendar month and not later than now, from createUser on; a new account
\* has usage_count = 0.
C17_BillingAnchorNormalized ==
    \A id \in DOMAIN users :
        /\ users[id].billingPeriodStart = DateTrunc(users[id].billingPeriodStart)
        /\ users[id].billingPeriodStart <= now

\* the request whose conditional UPDATE is accepted in this step
AcceptedStep(id) ==
    \E c \in Callers :
        /\ req[c].userId = id
        /\ pc[c] = "update"
        /\ pc'[c] = "done"
        /\ result'[c].canIncrement

\* C19: in every step usage_count of an account stays as it is, rises by
\* exactly 1 in the accepted UPDATE of an incrementUsageCount call, or is set
\* to 0 by a reset statement (which also sets last_usage_reset = now and
\* billing_period_start = the first instant of the month).
C19_TwoWritersOfUsageCount ==
    [][ \A id \in DOMAIN users \cap DOMAIN users' :
          \/ users'[id].usageCount = users[id].usageCount
          \/ /\ users'[id].usageCount = users[id].usageCount + 1
             /\ AcceptedStep(id)
          \/ /\ users'[id].usageCount = 0
             /\ users'[id].lastUsageReset = now
             /\ users'[id].billingPeriodStart = DateTrunc(now)
      ]_vars

====
